---------------------------- MODULE Spec2Model ----------------------------
(***************************************************************************)
(* Model of po_translator.py: the placeholder codec                        *)
(* (_extract_format_placeholders / _restore_format_placeholders), the      *)
(* translation gateway (DeepLTranslator.translate_text / translate_batch)  *)
(* and the catalog pass (POFileTranslator.translate_po_file).              *)
(*                                                                         *)
(* A Python str is a sequence of one-character strings.  A Python dict is  *)
(* a sequence of <<key, value>> pairs in insertion order.  None is the     *)
(* one-element sequence <<"None">>, which is no text.                      *)
(***************************************************************************)
EXTENDS Integers, Sequences, FiniteSets, TLC

VARIABLES
    pc,                 \* position of the running call
    text,               \* translate_text / codec: the argument
    processed_text,     \* text with markers
    placeholders,       \* dict marker -> placeholder
    result,             \* result.text of the provider (single call)
    ret,                \* the value returned by the running call
    texts,              \* translate_batch: the argument
    non_empty_indices,  \* translate_batch: 1-based positions of non-blank texts
    processed_texts,    \* translate_batch: texts submitted to the provider
    placeholders_list,  \* translate_batch: one dict per non-blank text
    results,            \* translate_batch: [r.text for r in results]
    provider_calls,     \* payloads handed to deepl.Translator.translate_text
    provider_outcome,   \* "none", "ok" or "raise": how the last provider call ended
    codec_calls,        \* number of _extract_/_restore_ invocations
    stderr,             \* diagnostic channel (sys.stderr)
    stdout,             \* progress channel (print)
    po_file,            \* the catalog file as it was when the pass started
    disk,               \* the catalog file now
    po,                 \* translate_po_file: the loaded catalog
    entry_i,            \* translate_po_file: loop position (1-based)
    submitted,          \* calls of self.translator.translate_text, in order
    failure,            \* translate_po_file: "none", or where an exception was raised
    save_calls,         \* translate_po_file: number of po.save() calls
    args_api_key,       \* main: args.api_key
    env_api_key,        \* main: os.environ.get("DEEPL_API_KEY")
    file_exists,        \* main: os.path.isfile(args.po_file)
    translator,         \* main: the key DeepLTranslator was constructed with, or None
    exit_code           \* main: the value returned, -1 while running

vars == <<pc, text, processed_text, placeholders, result, ret, texts,
          non_empty_indices, processed_texts, placeholders_list, results,
          provider_calls, provider_outcome, codec_calls, stderr, stdout,
          po_file, disk, po, entry_i, submitted, failure, save_calls,
          args_api_key, env_api_key, file_exists, translator, exit_code>>

codecVars == <<text, processed_text, placeholders, result>>
batchVars == <<texts, non_empty_indices, processed_texts, placeholders_list, results>>
poVars    == <<po_file, disk, po, entry_i, submitted>>
provVars  == <<provider_calls, provider_outcome>>
passVars  == <<failure, save_calls>>
mainVars  == <<args_api_key, env_api_key, file_exists, translator, exit_code>>

---------------------------------------------------------------------------
\* Bounds of the model.

MaxPieces  == 3     \* a codec / translate_text input is at most this many fragments
MaxBatch   == 3     \* length of the list given to translate_batch
MaxEntries == 3     \* number of entries in a catalog

---------------------------------------------------------------------------
\* Python str and dict primitives.

None == <<"None">>

Min(S) == CHOOSE x \in S : \A y \in S : x <= y

\* str.strip() removes leading and trailing whitespace
Whitespace == {" ", "\t", "\n"}

\* IsBlank with "if not text:" in place of "if not text.strip():"
IsBlank_empty_only(s) == s = <<>>

\* not text.strip()
IsBlank(s) == \A i \in 1..Len(s) : s[i] \in Whitespace

StartsAt(s, sub, p) ==
    /\ p + Len(sub) - 1 <= Len(s)
    /\ SubSeq(s, p, p + Len(sub) - 1) = sub

\* str.find(sub, from): first position >= from where sub occurs, 0 when none
Find(s, sub, from) ==
    LET c == {p \in from..(Len(s) - Len(sub) + 1) : StartsAt(s, sub, p)}
    IN  IF c = {} THEN 0 ELSE Min(c)

Contains(s, sub) == Find(s, sub, 1) # 0

\* str.replace(old, new, 1)
ReplaceFirst(s, old, new) ==
    LET p == Find(s, old, 1)
    IN  IF p = 0 THEN s
        ELSE SubSeq(s, 1, p - 1) \o new \o SubSeq(s, p + Len(old), Len(s))

RECURSIVE ReplaceAllFrom(_, _, _, _)
ReplaceAllFrom(s, old, new, from) ==
    LET p == Find(s, old, from)
    IN  IF p = 0 THEN SubSeq(s, from, Len(s))
        ELSE SubSeq(s, from, p - 1) \o new \o ReplaceAllFrom(s, old, new, p + Len(old))

\* str.replace(old, new)
ReplaceAll(s, old, new) == ReplaceAllFrom(s, old, new, 1)

\* first position >= from holding one of chars, 0 when none
NextIn(s, from, chars) ==
    LET c == {p \in from..Len(s) : s[p] \in chars}
    IN  IF c = {} THEN 0 ELSE Min(c)

Digits == <<"0", "1", "2", "3", "4", "5", "6", "7", "8", "9">>

\* f"{i}"
RECURSIVE IntToStr(_)
IntToStr(i) ==
    IF i < 10 THEN <<Digits[i + 1]>>
    ELSE IntToStr(i \div 10) \o <<Digits[(i % 10) + 1]>>

\* F(x) with x evaluated once, as a Python statement evaluates its operands
\* before the call
With(x, F(_)) == CHOOSE r \in {F(v) : v \in {x}} : TRUE

DictKeys(d) == {d[k][1] : k \in 1..Len(d)}

\* d[key] = value: a new key is appended, an existing key keeps its place
DictSet(d, key, value) ==
    IF key \in DictKeys(d)
    THEN [k \in 1..Len(d) |-> IF d[k][1] = key THEN <<key, value>> ELSE d[k]]
    ELSE Append(d, <<key, value>>)

---------------------------------------------------------------------------
\* The placeholder codec.

FORMAT_BRACE   == <<"_","_","F","O","R","M","A","T","_","B","R","A","C","E","_">>
FORMAT_PERCENT == <<"_","_","F","O","R","M","A","T","_","P","E","R","C","E","N","T","_">>

\* f"__FORMAT_BRACE_{i}__"
BraceMarker(i) == FORMAT_BRACE \o IntToStr(i) \o <<"_", "_">>

\* f"__FORMAT_PERCENT_{i}__"
PercentMarker(i) == FORMAT_PERCENT \o IntToStr(i) \o <<"_", "_">>

ConversionTypes == {"d","i","o","u","x","X","e","E","f","F","g","G","c","r","s"}

\* re.finditer(r'(\{[^{}]*\})', s): the matches, left to right, from position p
RECURSIVE brace_matches(_, _)
brace_matches(s, p) ==
    IF p > Len(s) THEN <<>>
    ELSE IF s[p] # "{" THEN brace_matches(s, p + 1)
    ELSE LET q == NextIn(s, p + 1, {"{", "}"})
         IN  IF q # 0 /\ s[q] = "}"
             THEN <<SubSeq(s, p, q)>> \o brace_matches(s, q + 1)
             ELSE brace_matches(s, p + 1)

\* re.finditer(r'(%\([^()]*\)[diouxXeEfFgGcrs])', s)
RECURSIVE percent_matches(_, _)
percent_matches(s, p) ==
    IF p > Len(s) THEN <<>>
    ELSE IF ~(s[p] = "%" /\ p + 1 <= Len(s) /\ s[p + 1] = "(")
    THEN percent_matches(s, p + 1)
    ELSE LET q == NextIn(s, p + 2, {"(", ")"})
         IN  IF q # 0 /\ s[q] = ")" /\ q + 1 <= Len(s) /\ s[q + 1] \in ConversionTypes
             THEN <<SubSeq(s, p, q + 1)>> \o percent_matches(s, q + 2)
             ELSE percent_matches(s, p + 1)

\* for i, match in enumerate(brace_matches): ...   state is <<processed_text, placeholders>>
RECURSIVE brace_loop(_, _, _, _)
brace_loop(matches, i, processed, phs) ==
    IF i >= Len(matches) THEN <<processed, phs>>
    ELSE LET placeholder == matches[i + 1]
             marker == BraceMarker(i)
         IN  With(<<ReplaceFirst(processed, placeholder, marker),
                    DictSet(phs, marker, placeholder)>>,
                  LAMBDA st : brace_loop(matches, i + 1, st[1], st[2]))

\* percent_loop numbering its markers after the brace markers (one counter)
RECURSIVE percent_loop_shared_counter(_, _, _, _)
percent_loop_shared_counter(matches, i, processed, phs) ==
    IF i >= Len(matches) THEN <<processed, phs>>
    ELSE LET placeholder == matches[i + 1]
             marker == PercentMarker(Len(phs))
         IN  With(<<ReplaceFirst(processed, placeholder, marker),
                    DictSet(phs, marker, placeholder)>>,
                  LAMBDA st : percent_loop_shared_counter(matches, i + 1, st[1], st[2]))

\* for i, match in enumerate(percent_matches): ...
RECURSIVE percent_loop(_, _, _, _)
percent_loop(matches, i, processed, phs) ==
    IF i >= Len(matches) THEN <<processed, phs>>
    ELSE LET placeholder == matches[i + 1]
             marker == PercentMarker(i)
         IN  With(<<ReplaceFirst(processed, placeholder, marker),
                    DictSet(phs, marker, placeholder)>>,
                  LAMBDA st : percent_loop(matches, i + 1, st[1], st[2]))

\* _extract_format_placeholders(text) -> <<processed_text, placeholders>>
extract_format_placeholders(t) ==
    With(brace_loop(brace_matches(t, 1), 0, t, <<>>),
         LAMBDA afterBrace :
            With(percent_matches(afterBrace[1], 1),
                 LAMBDA matches : percent_loop(matches, 0, afterBrace[1], afterBrace[2])))

\* for marker, placeholder in placeholders.items(): result = result.replace(marker, placeholder)
RECURSIVE restore_loop(_, _, _)
restore_loop(res, phs, k) ==
    IF k > Len(phs) THEN res
    ELSE With(ReplaceAll(res, phs[k][1], phs[k][2]),
              LAMBDA replaced : restore_loop(replaced, phs, k + 1))

\* _restore_format_placeholders(text, placeholders)
restore_format_placeholders(t, phs) == restore_loop(t, phs, 1)

---------------------------------------------------------------------------
\* Inputs.

Fragments ==
    { <<"a">>, <<" ">>, <<"{">>, <<"}">>, <<")">>,
      <<"{", "}">>, <<"{", "a", "}">>,
      <<"%", "(">>, <<")", "s">>, <<"%", "(", "a", ")", "s">> }

RECURSIVE TextsUpTo(_)
TextsUpTo(n) ==
    IF n = 0 THEN {<<>>}
    ELSE LET prev == TextsUpTo(n - 1)
         IN  prev \cup {t \o f : t \in prev, f \in Fragments}

Texts == TextsUpTo(MaxPieces)

---------------------------------------------------------------------------
\* The codec applied to a text, the processed text passed through unmodified.

NoCodec == text = <<>> /\ processed_text = <<>> /\ placeholders = <<>> /\ result = <<>>

NoBatch ==
    /\ texts = <<>> /\ non_empty_indices = <<>> /\ processed_texts = <<>>
    /\ placeholders_list = <<>> /\ results = <<>>

NoPo == po_file = <<>> /\ disk = <<>> /\ po = <<>> /\ entry_i = 0 /\ submitted = <<>>

NoEffects ==
    /\ provider_calls = <<>> /\ provider_outcome = "none" /\ codec_calls = 0
    /\ stderr = <<>> /\ stdout = <<>> /\ ret = <<>>
    /\ failure = "none" /\ save_calls = 0

\* main is not running: translate_po_file is called directly
NoMain ==
    /\ args_api_key = None /\ env_api_key = None /\ file_exists = TRUE
    /\ translator = None /\ exit_code = -1

InitCodec ==
    /\ pc = "codec_extract"
    /\ text \in Texts
    /\ processed_text = <<>> /\ placeholders = <<>> /\ result = <<>>
    /\ NoBatch /\ NoPo /\ NoEffects /\ NoMain

CodecExtract ==
    /\ pc = "codec_extract"
    /\ LET e == extract_format_placeholders(text)
       IN  /\ processed_text' = e[1]
           /\ placeholders' = e[2]
    /\ codec_calls' = codec_calls + 1
    /\ pc' = "codec_restore"
    /\ UNCHANGED <<passVars, mainVars, text, result, ret, batchVars, provVars, stderr, stdout, poVars>>

CodecRestore ==
    /\ pc = "codec_restore"
    /\ ret' = restore_format_placeholders(processed_text, placeholders)
    /\ codec_calls' = codec_calls + 1
    /\ pc' = "done"
    /\ UNCHANGED <<passVars, mainVars, codecVars, batchVars, provVars, stderr, stdout, poVars>>

NextCodec == CodecExtract \/ CodecRestore

SpecCodec == InitCodec /\ [][NextCodec]_vars

\* C1: for every text, restoring the processed text of the extraction with
\* the extraction's placeholder map gives back exactly the original text
\* (repeated, adjacent and brace-inside-percent placeholders included).
RoundTrip == pc = "done" => ret = text

---------------------------------------------------------------------------
\* The translation provider (deepl.Translator.translate_text), an external
\* service: it answers with a text of its choosing or raises.

\* result.text for one submitted text
ProviderReply(mode, sent) ==
    CASE mode = "echo"  -> sent                        \* returned unmodified
      [] mode = "prose" -> <<"b", " ">> \o sent        \* translated prose, markers verbatim
      [] mode = "empty" -> <<>>                        \* an empty translation

TextModes == {"echo", "prose", "empty", "raise"}

\* [r.text for r in results] for a submitted list
ProviderReplyBatch(mode, sent) ==
    CASE mode = "short" -> [k \in 1..(Len(sent) - 1) |-> sent[k]]
      [] OTHER          -> [k \in 1..Len(sent) |-> ProviderReply(mode, sent[k])]

BatchModes == {"echo", "prose", "empty", "short", "raise"}

---------------------------------------------------------------------------
\* DeepLTranslator.translate_text, statement by statement.

\* on_provider_failure submitting the same payload a second time
on_provider_failure_retry(except_pc, provider_pc, n) ==
    IF n < 2 THEN provider_pc ELSE except_pc

\* the provider call raised inside the try block: control goes to the except
\* clause; n is the number of provider calls made so far
on_provider_failure(except_pc, provider_pc, n) == except_pc

\* translate_text_except returning the text that was being processed
translate_text_except_processed(processed) == processed

\* the value returned by the except clause
translate_text_except(processed) == None

InitText ==
    /\ pc = "tt_start"
    /\ text \in Texts
    /\ processed_text = <<>> /\ placeholders = <<>> /\ result = <<>>
    /\ NoBatch /\ NoPo /\ NoEffects /\ NoMain

\* if not text.strip(): return text
TextStart ==
    /\ pc = "tt_start"
    /\ IF IsBlank(text)
       THEN ret' = text /\ pc' = "done"
       ELSE ret' = ret /\ pc' = "tt_extract"
    /\ UNCHANGED <<passVars, mainVars, codecVars, batchVars, provVars, codec_calls, stderr, stdout, poVars>>

\* processed_text, placeholders = self._extract_format_placeholders(text)
TextExtract ==
    /\ pc = "tt_extract"
    /\ LET e == extract_format_placeholders(text)
       IN  /\ processed_text' = e[1]
           /\ placeholders' = e[2]
    /\ codec_calls' = codec_calls + 1
    /\ pc' = "tt_provider"
    /\ UNCHANGED <<passVars, mainVars, text, result, ret, batchVars, provVars, stderr, stdout, poVars>>

\* result = self.translator.translate_text(processed_text, ...)
TextProvider ==
    /\ pc = "tt_provider"
    /\ provider_calls' = Append(provider_calls, processed_text)
    /\ \E mode \in TextModes :
         IF mode = "raise"
         THEN /\ provider_outcome' = "raise"
              /\ result' = result
              /\ pc' = on_provider_failure("tt_except", "tt_provider",
                                           Len(provider_calls) + 1)
         ELSE /\ provider_outcome' = "ok"
              /\ result' = ProviderReply(mode, processed_text)
              /\ pc' = "tt_restore"
    /\ UNCHANGED <<passVars, mainVars, text, processed_text, placeholders, ret, batchVars, codec_calls,
                   stderr, stdout, poVars>>

\* translated_text = self._restore_format_placeholders(result.text, placeholders)
\* return translated_text
TextRestore ==
    /\ pc = "tt_restore"
    /\ ret' = restore_format_placeholders(result, placeholders)
    /\ codec_calls' = codec_calls + 1
    /\ pc' = "done"
    /\ UNCHANGED <<passVars, mainVars, codecVars, batchVars, provVars, stderr, stdout, poVars>>

\* except Exception as e: print(..., file=sys.stderr); return None
TextExcept ==
    /\ pc = "tt_except"
    /\ stderr' = Append(stderr, "Error translating text")
    /\ ret' = translate_text_except(processed_text)
    /\ pc' = "done"
    /\ UNCHANGED <<passVars, mainVars, codecVars, batchVars, provVars, codec_calls, stdout, poVars>>

NextText == TextStart \/ TextExtract \/ TextProvider \/ TextRestore \/ TextExcept

SpecText == InitText /\ [][NextText]_vars

OnlyWhitespace(t) == \A i \in 1..Len(t) : t[i] \in {" ", "\t", "\n"}

\* C4: translate_text called with an empty or whitespace-only text returns
\* that text unchanged, makes no provider call and runs neither extraction
\* nor restoration.
BlankShortCircuitSingle ==
    (pc = "done" /\ OnlyWhitespace(text)) =>
        /\ ret = text
        /\ provider_calls = <<>>
        /\ codec_calls = 0

BlankShortCircuitSingleWitness ==
    pc = "done" /\ text = <<" ">> /\ ret = <<" ">> /\ provider_calls = <<>>

\* C5: for a non-blank text whose provider call raises, translate_text ends
\* with a return value, which is None, and has reported the failure on the
\* diagnostic channel.
SingleFailureIsNone ==
    /\ provider_outcome = "raise" => pc \in {"tt_except", "done"}
    /\ (pc = "done" /\ provider_outcome = "raise") =>
          /\ ret = None
          /\ stderr = <<"Error translating text">>

SingleFailureIsNoneWitness ==
    /\ pc = "done" /\ provider_outcome = "raise" /\ ret = None
    /\ placeholders # <<>> /\ ~OnlyWhitespace(text)

\* the placeholders of a text: its brace matches and its percent matches
OriginalPlaceholders(t) ==
    LET b == brace_matches(t, 1)
        p == percent_matches(t, 1)
    IN  {b[k] : k \in 1..Len(b)} \cup {p[k] : k \in 1..Len(p)}

HasMarkerToken(t) == Contains(t, FORMAT_BRACE) \/ Contains(t, FORMAT_PERCENT)

\* the reply holds every marker that the submitted text held
EchoesMarkers(reply, sent, phs) ==
    \A k \in 1..Len(phs) : Contains(sent, phs[k][1]) => Contains(reply, phs[k][1])

\* C7: for a non-blank text whose provider reply echoes every marker
\* verbatim, the returned string contains every original brace and percent
\* placeholder, contains no marker token, and the text sent to the provider
\* contained none of the original placeholders.
PlaceholderPreservation ==
    (/\ pc = "done" /\ ~OnlyWhitespace(text)
     /\ provider_outcome = "ok" /\ EchoesMarkers(result, processed_text, placeholders)) =>
        /\ \A ph \in OriginalPlaceholders(text) : Contains(ret, ph)
        /\ ~HasMarkerToken(ret)
        /\ \A ph \in OriginalPlaceholders(text) : ~Contains(processed_text, ph)

---------------------------------------------------------------------------
\* DeepLTranslator.translate_batch, statement by statement.

BatchTexts ==
    { <<>>, <<" ">>, <<"a">>, <<"{", "a", "}">>, <<"{", "}">>,
      <<"%", "(", "a", ")", "s">>, <<"%", "(", "{", "}", ")", "s">> }

RECURSIVE ListsUpTo(_, _)
ListsUpTo(S, n) ==
    IF n = 0 THEN {<<>>}
    ELSE LET prev == ListsUpTo(S, n - 1)
         IN  prev \cup {Append(l, x) : l \in prev, x \in S}

\* non_empty_from with "if text" in place of "if text.strip()"
RECURSIVE non_empty_from_truthy(_, _)
non_empty_from_truthy(ts, i) ==
    IF i > Len(ts) THEN <<>>
    ELSE IF ts[i] = <<>> THEN non_empty_from_truthy(ts, i + 1)
    ELSE <<i>> \o non_empty_from_truthy(ts, i + 1)

\* [i for i, text in enumerate(texts) if text.strip()]   (positions are 1-based here)
RECURSIVE non_empty_from(_, _)
non_empty_from(ts, i) ==
    IF i > Len(ts) THEN <<>>
    ELSE IF IsBlank(ts[i]) THEN non_empty_from(ts, i + 1)
    ELSE <<i>> \o non_empty_from(ts, i + 1)

\* batch_restore_loop restoring every item with the first item's map
RECURSIVE batch_restore_loop_shared_map(_, _, _, _, _)
batch_restore_loop_shared_map(out, i, idxs, res, phl) ==
    IF i > Len(idxs) \/ i > Len(res) THEN out
    ELSE batch_restore_loop_shared_map(
            [out EXCEPT ![idxs[i]] = restore_format_placeholders(res[i], phl[1])],
            i + 1, idxs, res, phl)

\* batch_restore_loop pairing every index, a missing result giving None
RECURSIVE batch_restore_loop_pad_none(_, _, _, _, _)
batch_restore_loop_pad_none(out, i, idxs, res, phl) ==
    IF i > Len(idxs) THEN out
    ELSE batch_restore_loop_pad_none(
            [out EXCEPT ![idxs[i]] = IF i > Len(res) THEN None
                                     ELSE restore_format_placeholders(res[i], phl[i])],
            i + 1, idxs, res, phl)

\* for i, (idx, result) in enumerate(zip(non_empty_indices, results)):
\*     translated_texts[idx] = self._restore_format_placeholders(result.text, placeholders_list[i])
RECURSIVE batch_restore_loop(_, _, _, _, _)
batch_restore_loop(out, i, idxs, res, phl) ==
    IF i > Len(idxs) \/ i > Len(res) THEN out
    ELSE batch_restore_loop(
            [out EXCEPT ![idxs[i]] = restore_format_placeholders(res[i], phl[i])],
            i + 1, idxs, res, phl)

\* translate_batch_except keeping the blank positions
translate_batch_except_keep_blank(ts) ==
    [k \in 1..Len(ts) |-> IF ts[k] = <<>> \/ ts[k] = <<" ">> THEN ts[k] ELSE None]

\* return [None] * len(texts)
translate_batch_except(ts) == [k \in 1..Len(ts) |-> None]

InitBatch ==
    /\ pc = "tb_start"
    /\ texts \in ListsUpTo(BatchTexts, MaxBatch)
    /\ non_empty_indices = <<>> /\ processed_texts = <<>>
    /\ placeholders_list = <<>> /\ results = <<>>
    /\ NoCodec /\ NoPo /\ NoEffects /\ NoMain

\* non_empty_indices = ...; non_empty_texts = ...; if not non_empty_texts: return texts
BatchStart ==
    /\ pc = "tb_start"
    /\ non_empty_indices' = non_empty_from(texts, 1)
    /\ IF non_empty_indices' = <<>>
       THEN ret' = texts /\ pc' = "done"
       ELSE ret' = ret /\ pc' = "tb_extract"
    /\ UNCHANGED <<passVars, mainVars, codecVars, texts, processed_texts, placeholders_list, results,
                   provVars, codec_calls, stderr, stdout, poVars>>

\* for text in non_empty_texts: processed_texts.append(...); placeholders_list.append(...)
BatchExtract ==
    /\ pc = "tb_extract"
    /\ processed_texts' = [k \in 1..Len(non_empty_indices) |->
                             extract_format_placeholders(texts[non_empty_indices[k]])[1]]
    /\ placeholders_list' = [k \in 1..Len(non_empty_indices) |->
                               extract_format_placeholders(texts[non_empty_indices[k]])[2]]
    /\ codec_calls' = codec_calls + Len(non_empty_indices)
    /\ pc' = "tb_provider"
    /\ UNCHANGED <<passVars, mainVars, codecVars, texts, non_empty_indices, results, ret, provVars,
                   stderr, stdout, poVars>>

\* results = self.translator.translate_text(processed_texts, ...)
BatchProvider ==
    /\ pc = "tb_provider"
    /\ provider_calls' = Append(provider_calls, processed_texts)
    /\ \E mode \in BatchModes :
         IF mode = "raise"
         THEN /\ provider_outcome' = "raise"
              /\ results' = results
              /\ pc' = on_provider_failure("tb_except", "tb_provider",
                                           Len(provider_calls) + 1)
         ELSE /\ provider_outcome' = "ok"
              /\ results' = ProviderReplyBatch(mode, processed_texts)
              /\ pc' = "tb_restore"
    /\ UNCHANGED <<passVars, mainVars, codecVars, texts, non_empty_indices, processed_texts,
                   placeholders_list, ret, codec_calls, stderr, stdout, poVars>>

\* translated_texts = texts.copy(); for ...: ...; return translated_texts
BatchRestore ==
    /\ pc = "tb_restore"
    /\ ret' = batch_restore_loop(texts, 1, non_empty_indices, results, placeholders_list)
    /\ codec_calls' = codec_calls +
                        (IF Len(results) < Len(non_empty_indices)
                         THEN Len(results) ELSE Len(non_empty_indices))
    /\ pc' = "done"
    /\ UNCHANGED <<passVars, mainVars, codecVars, batchVars, provVars, stderr, stdout, poVars>>

\* except Exception as e: print(..., file=sys.stderr); return [None] * len(texts)
BatchExcept ==
    /\ pc = "tb_except"
    /\ stderr' = Append(stderr, "Error translating batch")
    /\ ret' = translate_batch_except(texts)
    /\ pc' = "done"
    /\ UNCHANGED <<passVars, mainVars, codecVars, batchVars, provVars, codec_calls, stdout, poVars>>

NextBatch == BatchStart \/ BatchExtract \/ BatchProvider \/ BatchRestore \/ BatchExcept

SpecBatch == InitBatch /\ [][NextBatch]_vars

\* number of non-blank texts before position p
NonBlankBefore(ts, p) == Cardinality({q \in 1..(p - 1) : ~OnlyWhitespace(ts[q])})

SomeNonBlank(ts) == \E p \in 1..Len(ts) : ~OnlyWhitespace(ts[p])

\* C2: when the provider call succeeds with one result per submitted text,
\* translate_batch returns a list as long as its input; a blank position
\* holds its input, and the k-th non-blank position holds the k-th provider
\* result restored with the placeholder map of the text at that position.
BatchPositionalIntegrity ==
    (/\ pc = "done" /\ SomeNonBlank(texts)
     /\ provider_outcome = "ok"
     /\ Len(results) = Cardinality({p \in 1..Len(texts) : ~OnlyWhitespace(texts[p])})) =>
        /\ Len(ret) = Len(texts)
        /\ \A p \in 1..Len(texts) :
             IF OnlyWhitespace(texts[p])
             THEN ret[p] = texts[p]
             ELSE ret[p] = restore_format_placeholders(
                              results[NonBlankBefore(texts, p) + 1],
                              extract_format_placeholders(texts[p])[2])

\* a mixed batch: a blank between two texts whose maps differ
BatchPositionalIntegrityWitness ==
    /\ pc = "done" /\ provider_outcome = "ok"
    /\ texts = << <<"{", "a", "}">>, <<" ">>, <<"{", "}">> >>
    /\ results = << <<"b", " ">> \o BraceMarker(0), <<"b", " ">> \o BraceMarker(0) >>
    /\ ret = << <<"b", " ", "{", "a", "}">>, <<" ">>, <<"b", " ", "{", "}">> >>

\* C3: when the provider call of translate_batch raises, the call ends with
\* a return value: a list as long as the input whose every element is None,
\* the blank positions included.
BatchTotalFailure ==
    /\ provider_outcome = "raise" => pc \in {"tb_except", "done"}
    /\ (pc = "done" /\ provider_outcome = "raise") =>
          /\ Len(ret) = Len(texts)
          /\ \A p \in 1..Len(ret) : ret[p] = None

BatchTotalFailureWitness ==
    /\ pc = "done" /\ provider_outcome = "raise"
    /\ Len(texts) = 3 /\ OnlyWhitespace(texts[2]) /\ ~OnlyWhitespace(texts[1])
    /\ ret = <<None, None, None>>

\* C6: when the list given to translate_batch has no non-blank entry (the
\* empty list, or only empty / whitespace-only strings), the call returns
\* the input list unchanged and makes no provider call.
BlankShortCircuitBatch ==
    (pc = "done" /\ ~SomeNonBlank(texts)) =>
        /\ ret = texts
        /\ provider_calls = <<>>

BlankShortCircuitBatchWitness ==
    /\ pc = "done" /\ texts = << <<>>, <<" ">>, <<>> >>
    /\ ret = texts /\ provider_calls = <<>>

---------------------------------------------------------------------------
\* POFileTranslator.translate_po_file, statement by statement.  The catalog
\* store (polib) is external: pofile() and save() succeed or raise.

\* a polib.POEntry
Entry(msgid, msgid_plural, msgstr, msgstr_plural, flag) ==
    [msgid |-> msgid, msgid_plural |-> msgid_plural, msgstr |-> msgstr,
     msgstr_plural |-> msgstr_plural,
     fuzzy |-> (flag = "fuzzy"), obsolete |-> (flag = "obsolete")]

\* entry.translated(): polib reports an obsolete or fuzzy entry as not
\* translated, an entry with a msgstr as translated, and a plural entry as
\* translated when every plural slot is filled
translated(e) ==
    IF e.obsolete \/ e.fuzzy THEN FALSE
    ELSE IF e.msgstr # <<>> THEN TRUE
    ELSE IF e.msgstr_plural # <<>>
    THEN \A k \in 1..Len(e.msgstr_plural) : e.msgstr_plural[k] # <<>>
    ELSE FALSE

\* has_plural without the plural check
has_plural_never(e) == FALSE

\* if entry.msgid_plural:
has_plural(e) == e.msgid_plural # <<>>

\* truthy taking every value but None for a translation
truthy_not_none(r) == r # None

\* if translated_text:
truthy(r) == r # None /\ r # <<>>

\* set_msgstr writing the msgid in place of the translation
set_msgstr_msgid(e, translated_text) == [e EXCEPT !.msgstr = e.msgid]

\* entry.msgstr = translated_text
set_msgstr(e, translated_text) == [e EXCEPT !.msgstr = translated_text]

\* len([e for e in po if not e.translated()])
untranslated_count(entries) ==
    Cardinality({k \in 1..Len(entries) : ~translated(entries[k])})

\* a whole call of DeepLTranslator.translate_text: the value returned, the
\* payloads handed to the provider, the diagnostics written, the codec calls
translate_text(t, mode) ==
    IF IsBlank(t)
    THEN [ret |-> t, calls |-> <<>>, err |-> <<>>, codec |-> 0]
    ELSE LET e == extract_format_placeholders(t)
         IN  IF mode = "raise"
             THEN [ret |-> translate_text_except(e[1]), calls |-> <<e[1]>>,
                   err |-> <<"Error translating text">>, codec |-> 1]
             ELSE [ret |-> restore_format_placeholders(ProviderReply(mode, e[1]), e[2]),
                   calls |-> <<e[1]>>, err |-> <<>>, codec |-> 2]

\* next_entry leaving the loop when a translation failed
next_entry_break_on_none(i, n, translated_text) ==
    IF translated_text = None THEN n + 1 ELSE i + 1

\* for entry in po: the position after the body has run for entry i of n
next_entry(i, n, translated_text) == i + 1

\* on_exception with the try block starting after polib.pofile()
on_exception_load_outside_try(where) ==
    IF where = "load" THEN "raised" ELSE "po_except"

\* try: ... except Exception: where control goes when a statement of the
\* try block raises ("raised" would be an exception leaving the function)
on_exception(where) == "po_except"

EntryPool ==
    { Entry(<<"a">>, <<>>, <<>>, <<>>, ""),                    \* untranslated
      Entry(<<"{", "a", "}">>, <<>>, <<>>, <<>>, ""),          \* untranslated, placeholder
      Entry(<<" ">>, <<>>, <<>>, <<>>, ""),                    \* untranslated, blank msgid
      Entry(<<"a">>, <<>>, <<"c">>, <<>>, ""),                 \* translated
      Entry(<<"a">>, <<>>, <<"c">>, <<>>, "fuzzy"),            \* msgstr filled, fuzzy
      Entry(<<"a">>, <<>>, <<"c">>, <<>>, "obsolete"),         \* msgstr filled, obsolete
      Entry(<<"a">>, <<"a", "s">>, <<>>, << <<>>, <<>> >>, ""),        \* plural, untranslated
      Entry(<<"a">>, <<"a", "s">>, <<>>, << <<"c">>, <<"c">> >>, "") } \* plural, translated

InitPo ==
    /\ pc = "po_load"
    /\ po_file \in ListsUpTo(EntryPool, MaxEntries)
    /\ disk = po_file
    /\ po = <<>> /\ entry_i = 0 /\ submitted = <<>>
    /\ NoCodec /\ NoBatch /\ NoEffects /\ NoMain

\* po = polib.pofile(po_file_path)
PoLoad ==
    /\ pc = "po_load"
    /\ \E ok \in BOOLEAN :
         IF ok THEN po' = disk /\ failure' = failure /\ pc' = "po_count"
               ELSE po' = po /\ failure' = "load" /\ pc' = on_exception("load")
    /\ UNCHANGED <<save_calls, mainVars, codecVars, batchVars, provVars, codec_calls,
                   stderr, stdout, ret, po_file, disk, entry_i, submitted>>

\* untranslated_count = ...; print(...); if untranslated_count == 0: ...; return True
PoCount ==
    /\ pc = "po_count"
    /\ LET n == untranslated_count(po)
       IN  IF n = 0
           THEN /\ stdout' = stdout \o << <<"Found", IntToStr(n)>>,
                                         <<"No untranslated entries found", <<>>>> >>
                /\ ret' = TRUE
                /\ entry_i' = entry_i
                /\ pc' = "done"
           ELSE /\ stdout' = Append(stdout, <<"Found", IntToStr(n)>>)
                /\ ret' = ret
                /\ entry_i' = 1
                /\ pc' = "po_loop"
    /\ UNCHANGED <<passVars, mainVars, codecVars, batchVars, provVars, codec_calls, stderr,
                   po_file, disk, po, submitted>>

\* for entry in po: if not entry.translated(): ...   (the entry is translated: next entry)
PoEntryTranslated ==
    /\ pc = "po_loop" /\ entry_i <= Len(po)
    /\ translated(po[entry_i])
    /\ entry_i' = entry_i + 1
    /\ UNCHANGED <<passVars, mainVars, pc, codecVars, batchVars, provVars, codec_calls, stderr, stdout, ret,
                   po_file, disk, po, submitted>>

\* if entry.msgid_plural: print("Skipping plural form: ..."); continue
PoEntryPlural ==
    /\ pc = "po_loop" /\ entry_i <= Len(po)
    /\ ~translated(po[entry_i])
    /\ has_plural(po[entry_i])
    /\ stdout' = Append(stdout, <<"Skipping plural form", po[entry_i].msgid>>)
    /\ entry_i' = entry_i + 1
    /\ UNCHANGED <<passVars, mainVars, pc, codecVars, batchVars, provVars, codec_calls, stderr, ret,
                   po_file, disk, po, submitted>>

\* translated_text = self.translator.translate_text(entry.msgid, ...)
\* if translated_text: entry.msgstr = translated_text; print("Translated: ...")
\* else: print("Failed to translate: ...")
PoEntryTranslate ==
    /\ pc = "po_loop" /\ entry_i <= Len(po)
    /\ ~translated(po[entry_i])
    /\ ~has_plural(po[entry_i])
    /\ \E mode \in TextModes :
         LET msgid == po[entry_i].msgid
             call == translate_text(msgid, mode)
         IN  /\ submitted' = Append(submitted,
                                    [i |-> entry_i, msgid |-> msgid, result |-> call.ret])
             /\ provider_calls' = provider_calls \o call.calls
             /\ provider_outcome' = IF call.calls = <<>> THEN provider_outcome
                                    ELSE IF mode = "raise" THEN "raise" ELSE "ok"
             /\ codec_calls' = codec_calls + call.codec
             /\ stderr' = stderr \o call.err
             /\ IF truthy(call.ret)
                THEN /\ po' = [po EXCEPT ![entry_i] = set_msgstr(@, call.ret)]
                     /\ stdout' = Append(stdout, <<"Translated", msgid \o <<" -> ">> \o call.ret>>)
                ELSE /\ po' = po
                     /\ stdout' = Append(stdout, <<"Failed to translate", msgid>>)
             /\ entry_i' = next_entry(entry_i, Len(po), call.ret)
    /\ UNCHANGED <<passVars, mainVars, pc, codecVars, batchVars, ret, po_file, disk>>

\* the call self.translator.translate_text(...) raises: POFileTranslator is
\* given its translator by the caller, and one that raises is caught by the
\* except clause of translate_po_file
Raised == <<"Exception">>

PoTranslatorRaises ==
    /\ pc = "po_loop" /\ entry_i <= Len(po)
    /\ ~translated(po[entry_i])
    /\ ~has_plural(po[entry_i])
    /\ submitted' = Append(submitted,
                           [i |-> entry_i, msgid |-> po[entry_i].msgid, result |-> Raised])
    /\ entry_i' = entry_i + 1
    /\ failure' = "translator"
    /\ pc' = on_exception("translator")
    /\ UNCHANGED <<save_calls, mainVars, codecVars, batchVars, provVars, codec_calls,
                   stderr, stdout, ret, po_file, disk, po>>

\* po.save(); print("Translated PO file saved to ..."); return True
PoSave ==
    /\ pc = "po_loop" /\ entry_i > Len(po)
    /\ \E ok \in BOOLEAN :
         IF ok
         THEN /\ disk' = po
              /\ stdout' = Append(stdout, <<"Translated PO file saved", <<>>>>)
              /\ ret' = TRUE
              /\ failure' = failure
              /\ pc' = "done"
         ELSE /\ disk' = disk
              /\ stdout' = stdout
              /\ ret' = ret
              /\ failure' = "save"
              /\ pc' = on_exception("save")
    /\ save_calls' = save_calls + 1
    /\ UNCHANGED <<mainVars, codecVars, batchVars, provVars, codec_calls, stderr,
                   po_file, po, entry_i, submitted>>

\* except Exception as e: print(..., file=sys.stderr); return False
PoExcept ==
    /\ pc = "po_except"
    /\ stderr' = Append(stderr, "Error translating PO file")
    /\ ret' = FALSE
    /\ pc' = "done"
    /\ UNCHANGED <<passVars, mainVars, codecVars, batchVars, provVars, codec_calls, stdout, poVars>>

NextPo ==
    \/ PoLoad \/ PoCount \/ PoEntryTranslated \/ PoEntryPlural \/ PoEntryTranslate
    \/ PoTranslatorRaises \/ PoSave \/ PoExcept

SpecPo == InitPo /\ [][NextPo]_vars

\* no exception was reported by translate_po_file
NoStoreError == \A k \in 1..Len(stderr) : stderr[k] # "Error translating PO file"

SubmittedIndices == {submitted[k].i : k \in 1..Len(submitted)}

\* C8: an entry whose msgstr is already non-empty is never submitted to the
\* translator and its msgstr is unchanged after the pass; a catalog with no
\* untranslated entry causes no translator call and a True result.
AlreadyTranslatedSkip ==
    /\ \A i \in SubmittedIndices : po_file[i].msgstr = <<>>
    /\ \A i \in 1..Len(po) :
         po_file[i].msgstr # <<>> =>
            po[i].msgstr = po_file[i].msgstr /\ disk[i].msgstr = po_file[i].msgstr
    /\ (/\ pc = "done" /\ NoStoreError
        /\ \A i \in 1..Len(po_file) : po_file[i].msgstr # <<>>) =>
            submitted = <<>> /\ ret = TRUE

UntranslatedPlural(e) == ~translated(e) /\ e.msgid_plural # <<>>

SkipNotices == {k \in 1..Len(stdout) : stdout[k][1] = "Skipping plural form"}

\* C9: an untranslated entry with a non-empty msgid_plural is never
\* submitted to the translator, its msgstr and msgstr_plural are unchanged
\* (in memory and in the file), and once the loop has passed it a skip notice
\* naming it has been printed: one notice per such entry.
PluralSkip ==
    /\ \A i \in SubmittedIndices : ~UntranslatedPlural(po_file[i])
    /\ \A i \in 1..Len(po) :
         UntranslatedPlural(po_file[i]) =>
            /\ po[i] = po_file[i]
            /\ disk[i] = po_file[i]
            /\ i < entry_i =>
                 \E k \in SkipNotices : stdout[k][2] = po_file[i].msgid
    /\ Cardinality(SkipNotices) =
         Cardinality({i \in 1..Len(po) : i < entry_i /\ UntranslatedPlural(po_file[i])})

PluralSkipWitness ==
    /\ pc = "done" /\ ret = TRUE
    /\ Len(po_file) = 2
    /\ UntranslatedPlural(po_file[1])
    /\ ~translated(po_file[2]) /\ po_file[2].msgid_plural = <<>>
    /\ SubmittedIndices = {2}
    /\ stdout[2] = <<"Skipping plural form", <<"a">>>>
    /\ disk[1].msgstr_plural = << <<>>, <<>> >>

UntranslatedSingular(e) == ~translated(e) /\ e.msgid_plural = <<>>

\* C10: for a catalog with an untranslated singular entry, loaded and saved
\* without error, and a translator that returns a non-empty string for each
\* msgid it is given: the pass returns True, the catalog is saved, every
\* untranslated singular entry has been submitted once and its msgstr is the
\* translator's result for it, and every other entry is unchanged.
FullPassResult ==
    (/\ pc = "done" /\ NoStoreError
     /\ \E i \in 1..Len(po_file) : UntranslatedSingular(po_file[i])
     /\ \A k \in 1..Len(submitted) :
          submitted[k].result # None /\ submitted[k].result # <<>>) =>
        /\ ret = TRUE
        /\ disk = po
        /\ stdout[Len(stdout)] = <<"Translated PO file saved", <<>>>>
        /\ Len(disk) = Len(po_file)
        /\ \A i \in 1..Len(po_file) :
             IF UntranslatedSingular(po_file[i])
             THEN /\ Cardinality({k \in 1..Len(submitted) : submitted[k].i = i}) = 1
                  /\ \A k \in 1..Len(submitted) :
                       submitted[k].i = i =>
                          /\ submitted[k].msgid = po_file[i].msgid
                          /\ disk[i] = [po_file[i] EXCEPT !.msgstr = submitted[k].result]
             ELSE disk[i] = po_file[i]

FullPassResultWitness ==
    /\ pc = "done" /\ ret = TRUE /\ NoStoreError
    /\ Len(po_file) = 3
    /\ po_file[1].msgid = <<"{", "a", "}">> /\ UntranslatedSingular(po_file[1])
    /\ translated(po_file[2]) /\ po_file[2].msgstr = <<"c">>
    /\ UntranslatedPlural(po_file[3])
    /\ disk[1].msgstr = <<"b", " ", "{", "a", "}">>
    /\ disk[2] = po_file[2] /\ disk[3] = po_file[3]

\* the elements of a set of numbers, ascending
RECURSIVE Ascending(_)
Ascending(S) == IF S = {} THEN <<>> ELSE <<Min(S)>> \o Ascending(S \ {Min(S)})

IsText(r) == r # None /\ r # Raised

\* C11: a translation that yields None does not end the loop: at every point
\* of the loop the entries submitted so far are exactly the untranslated
\* singular entries already passed, in catalog order; a pass without
\* exception leaves the loop only after the last entry; and each submitted
\* entry holds the non-empty text returned for it, or else its old msgstr.
PerItemFailureIsolation ==
    entry_i >= 1 =>
        /\ [k \in 1..Len(submitted) |-> submitted[k].i] =
              Ascending({i \in 1..Len(po_file) :
                           i < entry_i /\ UntranslatedSingular(po_file[i])})
        /\ (pc = "done" /\ failure = "none") => entry_i = Len(po_file) + 1
        /\ \A k \in 1..Len(submitted) :
             po[submitted[k].i].msgstr =
                IF IsText(submitted[k].result) /\ submitted[k].result # <<>>
                THEN submitted[k].result
                ELSE po_file[submitted[k].i].msgstr

PerItemFailureIsolationWitness ==
    /\ pc = "done" /\ ret = TRUE
    /\ Len(submitted) = 3
    /\ submitted[1].result = <<"b", " ", "a">>
    /\ submitted[2].result = None
    /\ submitted[3].result = <<"b", " ", "{", "a", "}">>
    /\ disk[1].msgstr = <<"b", " ", "a">>
    /\ disk[2].msgstr = po_file[2].msgstr
    /\ disk[3].msgstr = <<"b", " ", "{", "a", "}">>

\* C12: an exception raised while loading the catalog, by the translator
\* call for an entry, or while saving never leaves translate_po_file: the
\* call ends with a return value, which is False exactly when an exception
\* was raised, and the error has then been written to the diagnostic channel.
NoExceptionEscapes ==
    /\ pc # "raised"
    /\ failure # "none" => pc \in {"po_except", "done"}
    /\ pc = "done" => (ret = FALSE <=> failure # "none")
    /\ (pc = "done" /\ failure # "none") =>
          /\ stderr # <<>>
          /\ stderr[Len(stderr)] = "Error translating PO file"

NoExceptionEscapesWitness ==
    /\ pc = "done" /\ ret = FALSE /\ failure = "save"
    /\ submitted # <<>> /\ po # po_file /\ disk = po_file
    /\ stderr[Len(stderr)] = "Error translating PO file"

---------------------------------------------------------------------------
\* One gateway call: translate_text or translate_batch.  The call is
\* synchronous, so a statement that can run does run; the provider returns
\* or raises.

\* a call of translate_text on one of the texts a list is made of, or a call
\* of translate_batch on a list
InitGateway == (InitText /\ text \in BatchTexts) \/ InitBatch

NextGateway == NextText \/ NextBatch

SpecGateway == InitGateway /\ [][NextGateway]_vars /\ WF_vars(NextGateway)

\* the processed texts of the non-blank texts of a list, in their order
RECURSIVE ExtractedNonBlank(_, _)
ExtractedNonBlank(ts, p) ==
    IF p > Len(ts) THEN <<>>
    ELSE IF OnlyWhitespace(ts[p]) THEN ExtractedNonBlank(ts, p + 1)
    ELSE <<extract_format_placeholders(ts[p])[1]>> \o ExtractedNonBlank(ts, p + 1)

SomeInputNonBlank == ~OnlyWhitespace(text) \/ SomeNonBlank(texts)

GatewayTransitions ==
    { <<"tt_start", "done">>, <<"tt_start", "tt_extract">>,
      <<"tt_extract", "tt_provider">>,
      <<"tt_provider", "tt_restore">>, <<"tt_provider", "tt_except">>,
      <<"tt_restore", "done">>, <<"tt_except", "done">>,
      <<"tb_start", "done">>, <<"tb_start", "tb_extract">>,
      <<"tb_extract", "tb_provider">>,
      <<"tb_provider", "tb_restore">>, <<"tb_provider", "tb_except">>,
      <<"tb_restore", "done">>, <<"tb_except", "done">> }

GatewayStep == <<pc, pc'>> \in GatewayTransitions

NoCallAfterFailure == provider_outcome = "raise" => provider_calls' = provider_calls

GatewayCallCount ==
    /\ Len(provider_calls) <= 1
    /\ pc = "done" => (Len(provider_calls) = 1 <=> SomeInputNonBlank)
    /\ Len(provider_calls) = 1 =>
          provider_calls[1] = IF ~OnlyWhitespace(text)
                              THEN extract_format_placeholders(text)[1]
                              ELSE ExtractedNonBlank(texts, 1)
    /\ (pc = "done" /\ provider_outcome = "raise") => Len(stderr) = 1
    /\ (pc = "done" /\ provider_outcome # "raise") => stderr = <<>>

\* C13: a call of translate_text or translate_batch moves only along
\* Start -> Done (all blank) or Start -> Extracting -> ProviderCall ->
\* (Restoring | Reported) -> Done; it makes at most one provider call,
\* exactly one when some input is non-blank, carrying the extracted non-blank
\* texts in their order; it never calls the provider after a failure; and it
\* ends with a return value.
OneProviderCallNoRetry ==
    /\ []GatewayCallCount
    /\ [][GatewayStep]_vars
    /\ [][NoCallAfterFailure]_vars
    /\ <>(pc = "done")

OneProviderCallNoRetryWitness ==
    /\ pc = "done" /\ provider_outcome = "raise"
    /\ Len(texts) = 3 /\ OnlyWhitespace(texts[2])
    /\ provider_calls = << << BraceMarker(0), PercentMarker(0) >> >>
    /\ ret = <<None, None, None>>

\* ---------------------------------------------------------------------------
\* main(): the command line entry point around translate_po_file

\* values of args.api_key and of os.environ.get("DEEPL_API_KEY")
ApiKeys == {None, <<>>, <<"k">>}

\* bool(x) of an optional string
key_truthy(k) == k # None /\ k # <<>>

\* api_key = args.api_key or os.environ.get("DEEPL_API_KEY")
api_key_of(a, e) == IF key_truthy(a) THEN a ELSE e

\* exit_code_of ignoring the result of the pass
exit_code_of_always_zero(success) == 0

\* return 0 if success else 1
exit_code_of(success) == IF success THEN 0 ELSE 1

MainEntryPool ==
    { Entry(<<"a">>, <<>>, <<>>, <<>>, ""),
      Entry(<<"a">>, <<>>, <<"c">>, <<>>, ""),
      Entry(<<"a">>, <<"a", "s">>, <<>>, << <<>>, <<>> >>, "") }

InitMain ==
    /\ pc = "main_start"
    /\ args_api_key \in ApiKeys /\ env_api_key \in ApiKeys
    /\ file_exists \in BOOLEAN
    /\ translator = None /\ exit_code = -1
    /\ po_file \in ListsUpTo(MainEntryPool, MaxEntries)
    /\ disk = po_file
    /\ po = <<>> /\ entry_i = 0 /\ submitted = <<>>
    /\ NoCodec /\ NoBatch /\ NoEffects

\* if not api_key: print(..., file=sys.stderr); return 1
MainKeyCheck ==
    /\ pc = "main_start"
    /\ IF key_truthy(api_key_of(args_api_key, env_api_key))
       THEN /\ pc' = "main_isfile"
            /\ UNCHANGED <<stderr, exit_code>>
       ELSE /\ stderr' = Append(stderr, "Error: DeepL API key is required")
            /\ exit_code' = 1
            /\ pc' = "main_done"
    /\ UNCHANGED <<passVars, args_api_key, env_api_key, file_exists, translator,
                   codecVars, batchVars, provVars, codec_calls, stdout, ret, poVars>>

\* if not os.path.isfile(args.po_file): print(..., file=sys.stderr); return 1
MainFileCheck ==
    /\ pc = "main_isfile"
    /\ IF file_exists
       THEN /\ pc' = "main_construct"
            /\ UNCHANGED <<stderr, exit_code>>
       ELSE /\ stderr' = Append(stderr, "Error: PO file not found")
            /\ exit_code' = 1
            /\ pc' = "main_done"
    /\ UNCHANGED <<passVars, args_api_key, env_api_key, file_exists, translator,
                   codecVars, batchVars, provVars, codec_calls, stdout, ret, poVars>>

\* translator = DeepLTranslator(api_key); po_translator = POFileTranslator(translator)
\* and the call po_translator.translate_po_file(...) is entered
MainConstruct ==
    /\ pc = "main_construct"
    /\ translator' = api_key_of(args_api_key, env_api_key)
    /\ pc' = "po_load"
    /\ UNCHANGED <<passVars, args_api_key, env_api_key, file_exists, exit_code,
                   codecVars, batchVars, provVars, codec_calls, stderr, stdout, ret, poVars>>

\* success = po_translator.translate_po_file(...); return 0 if success else 1
MainReturn ==
    /\ pc = "done" /\ translator # None
    /\ exit_code' = exit_code_of(ret)
    /\ pc' = "main_done"
    /\ UNCHANGED <<passVars, args_api_key, env_api_key, file_exists, translator,
                   codecVars, batchVars, provVars, codec_calls, stderr, stdout, ret, poVars>>

NextMain == MainKeyCheck \/ MainFileCheck \/ MainConstruct \/ NextPo \/ MainReturn

SpecMain == InitMain /\ [][NextMain]_vars

\* a credential is available: the flag, else the environment variable
CredentialAvailable ==
    \/ (args_api_key # None /\ args_api_key # <<>>)
    \/ (env_api_key # None /\ env_api_key # <<>>)

\* translate_po_file has not been entered and nothing of it has happened
PassNotStarted ==
    /\ pc \in {"main_start", "main_isfile", "main_done"}
    /\ po = <<>> /\ entry_i = 0 /\ submitted = <<>>
    /\ provider_calls = <<>> /\ save_calls = 0 /\ stdout = <<>>
    /\ disk = po_file

\* C14: main returns 0 exactly when a credential is available (the flag, else
\* the environment variable), the catalog file exists and translate_po_file
\* returned True, and 1 in every other case; when the credential or the file
\* is missing, no translator is constructed and no pass is started.
CliExitCode ==
    /\ pc = "main_done" =>
          /\ exit_code \in {0, 1}
          /\ exit_code = 0 <=> (CredentialAvailable /\ file_exists /\ ret = TRUE)
    /\ pc # "main_done" => exit_code = -1
    /\ (~CredentialAvailable \/ ~file_exists) =>
          /\ translator = None
          /\ PassNotStarted
          /\ pc = "main_done" => Len(stderr) = 1
    /\ translator # None =>
          /\ CredentialAvailable /\ file_exists
          /\ translator = IF args_api_key \in {None, <<>>} THEN env_api_key ELSE args_api_key

\* the flag is empty, the environment variable supplies the key, the pass
\* translated an entry and saved: exit code 0
CliExitCodeWitness ==
    /\ pc = "main_done" /\ exit_code = 0
    /\ args_api_key = <<>> /\ env_api_key = <<"k">> /\ translator = <<"k">>
    /\ file_exists /\ ret = TRUE
    /\ submitted # <<>> /\ disk # po_file

\* ---------------------------------------------------------------------------
\* Order of replacement in _restore_format_placeholders

\* the items of a placeholder map in every possible order
Orderings(phs) ==
    LET n == Len(phs)
        perms == {f \in [1..n -> 1..n] : \A a, b \in 1..n : a # b => f[a] # f[b]}
    IN  {[k \in 1..n |-> phs[f[k]]] : f \in perms}

\* C15: for every text and the placeholder map of its extraction, replacing
\* the markers in any order over the map's keys gives the same result as the
\* order of _restore_format_placeholders; no marker is a substring of another
\* marker and no mapped placeholder value contains a marker.
RestorationOrderIndependent ==
    pc = "done" =>
        /\ \A o \in Orderings(placeholders) : restore_loop(processed_text, o, 1) = ret
        /\ \A j, k \in 1..Len(placeholders) :
              j # k => ~Contains(placeholders[j][1], placeholders[k][1])
        /\ \A k \in 1..Len(placeholders) : ~HasMarkerToken(placeholders[k][2])

\* ---------------------------------------------------------------------------
\* Marker numbering in _extract_format_placeholders

\* every marker the extraction of a text of the input set can insert
Markers == {BraceMarker(i) : i \in 0..MaxPieces} \cup {PercentMarker(i) : i \in 0..MaxPieces}

\* C16: the i-th brace match of the original text is mapped from
\* __FORMAT_BRACE_i__ and the j-th percent match of the brace-substituted text
\* from __FORMAT_PERCENT_j__ (own counter); repeated identical placeholders get
\* their own markers, so the map has one entry per matched occurrence; every
\* marker present in the processed text has exactly one map entry; a text
\* with no placeholders is returned unchanged with an empty map.
MarkerAssignment ==
    pc \in {"codec_restore", "done"} =>
        LET b == brace_matches(text, 1)
            substituted == brace_loop(b, 0, text, <<>>)[1]
            p == percent_matches(substituted, 1)
        IN  /\ Len(placeholders) = Len(b) + Len(p)
            /\ \A i \in 0..(Len(b) - 1) :
                  placeholders[i + 1] = <<BraceMarker(i), b[i + 1]>>
            /\ \A j \in 0..(Len(p) - 1) :
                  placeholders[Len(b) + j + 1] = <<PercentMarker(j), p[j + 1]>>
            /\ \A j, k \in 1..Len(placeholders) :
                  j # k => placeholders[j][1] # placeholders[k][1]
            /\ \A m \in Markers :
                  Contains(processed_text, m) =>
                      Cardinality({k \in 1..Len(placeholders) : placeholders[k][1] = m}) = 1
            /\ (b = <<>> /\ p = <<>>) => (processed_text = text /\ placeholders = <<>>)

\* "{a}%(a)s{a}": the repeated brace placeholder has two markers and the
\* percent placeholder is numbered from 0 again
MarkerAssignmentWitness ==
    /\ pc = "done"
    /\ text = <<"{", "a", "}", "%", "(", "a", ")", "s", "{", "a", "}">>
    /\ processed_text = BraceMarker(0) \o PercentMarker(0) \o BraceMarker(1)
    /\ placeholders = << <<BraceMarker(0), <<"{", "a", "}">> >>,
                         <<BraceMarker(1), <<"{", "a", "}">> >>,
                         <<PercentMarker(0), <<"%", "(", "a", ")", "s">> >> >>

\* ---------------------------------------------------------------------------
\* A provider reply shorter than the submitted list

NonBlankCount(ts) == Cardinality({p \in 1..Len(ts) : ~OnlyWhitespace(ts[p])})

NoticeCount(kind) == Cardinality({k \in 1..Len(stdout) : stdout[k][1] = kind})

\* the calls whose result was None or the empty string
FailedCalls == {k \in 1..Len(submitted) : submitted[k].result \in {None, <<>>}}

=============================================================================
